---- MODULE Spec2Model ----
(***************************************************************************)
(* Branch-and-bound 0/1 knapsack solvers.                                  *)
(*                                                                         *)
(*   src/algorithms/branch_and_bound.py   BranchAndBoundSolver (list used  *)
(*                                        with pop(): last in, first out)  *)
(*   src/algorithms/knapsack_solvers.py   the two bounds and the four      *)
(*                                        strategy classes                 *)
(*   src/branch_and_bound.py              BranchAndBoundSolver of solve_it *)
(*                                        (queue.Queue: first in, first    *)
(*                                        out, integrality bound)          *)
(*                                                                         *)
(* Python ints are unbounded and are modelled by integers.  Python floats  *)
(* are IEEE-754 doubles; the values the solvers compute with them (the     *)
(* sort key value/weight and the fractional share of the bound) are        *)
(* modelled bit for bit by the Double operators below.                     *)
(***************************************************************************)
EXTENDS Integers, Sequences, FiniteSets, TLC

\* ------------------------------------------------------------------ bounds
MaxItems == 3
MaxValue == 2
MaxWeight == 3
MaxCapacity == 3
\* instances with a weight that is not positive: item count, and the weights
\* go down to -MaxNegativeWeight
MaxItemsAny == 2
MaxNegativeWeight == 1
\* calls of execute on one solver object
MaxCalls == 2

\* significand width of a Python float (IEEE-754 binary64)
MantissaBits == 53

\* ------------------------------------------------------- IEEE-754 doubles
\* A finite double x >= 0 (or a negative integer) is the record
\* [int |-> I, frac |-> b] standing for I + 0.b1 b2 ... bk in binary, where b
\* has no trailing 0.  All the doubles of the solvers are far from the
\* exponent limits, so only the 53-bit significand rounding is modelled.

RECURSIVE BitLen(_)
BitLen(i) == IF i <= 0 THEN 0 ELSE 1 + BitLen(i \div 2)

\* the positions of the last 1, the first 1 and the last 0 of b
LastOne(b) ==
    CHOOSE i \in 1..Len(b) : b[i] = 1 /\ \A j \in (i + 1)..Len(b) : b[j] = 0
FirstOne(b) ==
    CHOOSE i \in 1..Len(b) : b[i] = 1 /\ \A j \in 1..(i - 1) : b[j] = 0
LastZero(b) ==
    CHOOSE i \in 1..Len(b) : b[i] = 0 /\ \A j \in (i + 1)..Len(b) : b[j] = 1

\* b without its trailing 0s
StripZeros(b) ==
    IF \A i \in 1..Len(b) : b[i] = 0 THEN <<>> ELSE SubSeq(b, 1, LastOne(b))

LeadingZeros(b) ==
    IF \A i \in 1..Len(b) : b[i] = 0 THEN Len(b) ELSE FirstOne(b) - 1

\* b + one unit in its last place, p being the position of the last 0 of b
\* (0 when b has none): the carry out of the fraction, and the bits
IncBitsAt(b, p) ==
    [carry |-> IF p = 0 THEN 1 ELSE 0,
     bits |-> [i \in 1..Len(b) |->
                 IF i < p THEN b[i] ELSE IF i = p THEN 1 ELSE 0]]

IncBits(b) ==
    IncBitsAt(b, IF \A i \in 1..Len(b) : b[i] = 1 THEN 0 ELSE LastZero(b))

\* i + 0.bits rounded to the allowed number of fraction bits: to nearest,
\* ties to even
RoundUp(i, kept, inc) ==
    [int |-> i + inc.carry, frac |-> StripZeros(inc.bits)]

RoundAt(i, bits, allowed) ==
    IF i < 0 \/ Len(bits) <= allowed THEN [int |-> i, frac |-> bits]
    ELSE IF /\ bits[allowed + 1] = 1
            /\ \/ Len(bits) > allowed + 1
               \/ (IF allowed = 0 THEN i % 2 ELSE bits[allowed]) = 1
         THEN RoundUp(i, SubSeq(bits, 1, allowed),
                      IncBits(SubSeq(bits, 1, allowed)))
         ELSE [int |-> i, frac |-> StripZeros(SubSeq(bits, 1, allowed))]

RoundStripped(i, bits) ==
    RoundAt(i, bits, IF i >= 1 THEN MantissaBits - BitLen(i)
                     ELSE LeadingZeros(bits) + MantissaBits)

\* round-to-nearest, ties-to-even, of the exact binary number i + 0.b
RoundDouble(i, b) == RoundStripped(i, StripZeros(b))

\* bits are produced and consumed ChunkBits at a time, so that every
\* intermediate product stays a small integer
ChunkBits == 15
DivChunks == 5
Min(a, b) == IF a <= b THEN a ELSE b
Max(a, b) == IF a >= b THEN a ELSE b

\* the len binary digits of x
ChunkDigits(x, len) == [i \in 1..len |-> (x \div (2 ^ (len - i))) % 2]

\* the integer whose binary digits are b
RECURSIVE ChunkValue(_)
ChunkValue(b) ==
    IF b = <<>> THEN 0
    ELSE 2 * ChunkValue(SubSeq(b, 1, Len(b) - 1)) + b[Len(b)]

\* the binary expansion of r / w (0 <= r < w < 2^ChunkBits) by long division:
\* the bits the rounding needs, closed by a 1 when the division is not exact
\* that far
RECURSIVE DivBits(_, _, _)
DivBits(r, w, chunks) ==
    IF r = 0 THEN <<>>
    ELSE IF chunks = 0 THEN <<1>>
    ELSE ChunkDigits((r * (2 ^ ChunkBits)) \div w, ChunkBits)
            \o DivBits((r * (2 ^ ChunkBits)) % w, w, chunks - 1)

IntToDouble(i) == [int |-> i, frac |-> <<>>]

\* float(v) / float(w) for v >= 0, w > 0
DoubleDiv(v, w) == RoundDouble(v \div w, DivBits(v % w, w, DivChunks))

\* k * 0.b for 0 <= k < 2^ChunkBits, a chunk of bits at a time from the end
\* of b: <<carry into the integer part>> followed by the bits of the product
MulJoin(t, len, low) ==
    <<t \div (2 ^ len)>> \o ChunkDigits(t % (2 ^ len), len) \o Tail(low)

MulChunk(k, chunk, low) ==
    MulJoin(k * ChunkValue(chunk) + low[1], Len(chunk), low)

RECURSIVE MulBits(_, _)
MulBits(k, b) ==
    IF b = <<>> THEN <<0>>
    ELSE MulChunk(k, SubSeq(b, 1, Min(Len(b), ChunkBits)),
                  MulBits(k, SubSeq(b, Min(Len(b), ChunkBits) + 1, Len(b))))

\* k * x for an int k >= 0 and a double x >= 0
DoubleMulInt(k, x) ==
    LET p == MulBits(k, x.frac)
    IN RoundDouble(k * x.int + p[1], Tail(p))

\* e + x for an int e and a double x >= 0
DoubleAddInt(e, x) == RoundDouble(e + x.int, x.frac)

\* 0.a < 0.b
BitsLess(a, b) ==
    LET bit(s, i) == IF i <= Len(s) THEN s[i] ELSE 0
    IN \E i \in 1..Max(Len(a), Len(b)) :
          /\ bit(a, i) < bit(b, i)
          /\ \A j \in 1..(i - 1) : bit(a, j) = bit(b, j)

DoubleLess(x, y) ==
    x.int < y.int \/ (x.int = y.int /\ BitsLess(x.frac, y.frac))

DoubleLeq(x, y) == x = y \/ DoubleLess(x, y)

\* ------------------------------------------------------------- the solvers
\* The concrete classes: capacity or integrality bound, mixed with
\* DepthFirstSolver or BestFirstSolver (knapsack_solvers.py), and the solver
\* of src/branch_and_bound.py that solve_it runs ("Fifo").
Classes == {"CapDF", "CapBF", "IntBF", "IntDF", "Fifo"}
CapacityClasses == {"CapDF", "CapBF"}
IntegralityClasses == {"IntBF", "IntDF", "Fifo"}
BestFirstClasses == {"CapBF", "IntBF"}
DepthFirstClasses == {"CapDF", "IntDF"}

VARIABLES
    cls,               \* class of the solver object
    items,             \* self.items: sequence of Item
    capacity,          \* self.capacity
    pc,                \* "new", "constructed", "loop", "done", "error"
    sorted_items,      \* self.sorted_items
    n,                 \* self.n
    values,            \* self.values
    weights,           \* self.weights
    cumsum_value,      \* self.cumsum_value (capacity classes only)
    items_selected,    \* self.items_selected
    optimal_value,     \* self.optimal_value
    optimal_solution,  \* self.optimal_solution
    queue,             \* self.queue / self.q
    solution,          \* the local variable solution of execute
    created,           \* the nodes built since the last removal, in order
    result,            \* the value returned by the last execute that ended
    previous,          \* the value returned by the execute before that one
    calls,             \* the number of calls of execute so far
    error              \* the exception raised, "" when none

vars == <<cls, items, capacity, pc, sorted_items, n, values, weights,
          cumsum_value, items_selected, optimal_value, optimal_solution,
          queue, solution, created, result, previous, calls, error>>

Item(index, value, weight) ==
    [index |-> index, value |-> value, weight |-> weight]

Solution(level, value, weight, optimistic_estimate, products) ==
    [level |-> level, value |-> value, weight |-> weight,
     optimistic_estimate |-> optimistic_estimate, products |-> products]

NoSolution == Solution(-1, 0, 0, IntToDouble(0), <<>>)
NoResult == [value |-> -1, taken |-> <<>>]

RECURSIVE SumSeq(_)
SumSeq(s) == IF s = <<>> THEN 0 ELSE s[1] + SumSeq(Tail(s))

\* ---- _sort_items
\* The sort key float(x.value) / float(x.weight): a double and its sign.
SortKey(item) ==
    IF item.weight > 0
    THEN [neg |-> FALSE, mag |-> DoubleDiv(item.value, item.weight)]
    ELSE [neg |-> TRUE, mag |-> DoubleDiv(item.value, 0 - item.weight)]

KeyIsZero(k) == k.mag = IntToDouble(0)

\* a < b on floats (-0.0 equals 0.0)
KeyLess(a, b) ==
    IF KeyIsZero(a) /\ KeyIsZero(b) THEN FALSE
    ELSE IF a.neg /\ ~KeyIsZero(a)
         THEN (~b.neg \/ KeyIsZero(b)) \/ DoubleLess(b.mag, a.mag)
         ELSE (~b.neg \/ KeyIsZero(b)) /\ DoubleLess(a.mag, b.mag)

\* (variant: items with equal keys come out in the reverse of their input
\* order)
SortPosition_TiesReversed(keys, i) ==
    1 + Cardinality({j \in 1..Len(keys) :
            \/ KeyLess(keys[i], keys[j])
            \/ /\ ~KeyLess(keys[j], keys[i])
               /\ j > i})

\* sorted(items, key=..., reverse=True): descending keys, and items with
\* equal keys in their input order (the sort is stable, also when reversed)
SortPosition(keys, i) ==
    1 + Cardinality({j \in 1..Len(keys) :
            \/ KeyLess(keys[i], keys[j])
            \/ /\ ~KeyLess(keys[j], keys[i])
               /\ j < i})

SortByPosition(its, position) ==
    [k \in 1..Len(its) |-> its[CHOOSE i \in 1..Len(its) : position[i] = k]]

SortByKeys(its, keys) ==
    SortByPosition(its, [i \in 1..Len(its) |-> SortPosition(keys, i)] \o <<>>)

sort_items(its) ==
    SortByKeys(its, [i \in 1..Len(its) |-> SortKey(its[i])] \o <<>>) \o <<>>

\* ---- the read-only part of a solver object, as the methods see it
SolverObject(c, cap, sorted, cumsum) ==
    [cls |-> c, capacity |-> cap, n |-> Len(sorted),
     sorted_items |-> sorted,
     values |-> [k \in 1..Len(sorted) |-> sorted[k].value],
     weights |-> [k \in 1..Len(sorted) |-> sorted[k].weight],
     cumsum_value |-> cumsum]

\* np.insert(np.cumsum(values), 0, 0): cumsum_value[k + 1] is the sum of the
\* first k values
CumSum(vals) == [k \in 1..(Len(vals) + 1) |-> SumSeq(SubSeq(vals, 1, k - 1))]

\* ---- BranchBoundCapacityConstraint._calculate_optimistic_estimate
CapacityEstimate(self, sol) ==
    IntToDouble(sol.weight + self.cumsum_value[self.n + 1]
                - self.cumsum_value[sol.level + 1])

\* ---- BranchBoundIntegralityConstraint._calculate_optimistic_estimate
\* the while loop: [j, estimate, solution_weight] when it stops
RECURSIVE FillKnapsack(_, _, _, _)
FillKnapsack(self, j, estimate, solution_weight) ==
    IF j < self.n /\ solution_weight + self.weights[j + 1] <= self.capacity
    THEN FillKnapsack(self, j + 1, estimate + self.values[j + 1],
                      solution_weight + self.weights[j + 1])
    ELSE [j |-> j, estimate |-> estimate, solution_weight |-> solution_weight]

\* (variant: the fractional share of the first item that does not fit is left
\* out of the estimate)
FillFraction_NoShare(self, f) == IntToDouble(f.estimate)

\* (variant: the first item that does not fit counts with its whole value)
FillFraction_WholeItem(self, f) ==
    IF f.j < self.n
    THEN IntToDouble(f.estimate + self.values[f.j + 1])
    ELSE IntToDouble(f.estimate)

\* the rest of the method, after the while loop
FillFraction(self, f) ==
    IF f.j < self.n
    THEN DoubleAddInt(f.estimate,
             DoubleMulInt(self.capacity - f.solution_weight,
                 DoubleDiv(self.values[f.j + 1], self.weights[f.j + 1])))
    ELSE IntToDouble(f.estimate)

IntegralityEstimate(self, sol) ==
    IF sol.weight > self.capacity THEN IntToDouble(0)
    ELSE FillFraction(self,
             FillKnapsack(self, sol.level, sol.value, sol.weight))

calculate_optimistic_estimate(self, sol) ==
    IF self.cls \in CapacityClasses THEN CapacityEstimate(self, sol)
    ELSE IntegralityEstimate(self, sol)

\* ---- _set_solution
set_solution(self, level, value, weight, products) ==
    Solution(level, value, weight,
             calculate_optimistic_estimate(self,
                 Solution(level, value, weight, IntToDouble(0), products)),
             products)

\* (variant: the weight of the new item is not counted)
check_if_room_for_extra_item_IgnoresItem(self, new_item, current_solution) ==
    ~(self.capacity - current_solution.weight < 0)

\* (variant: the room may be short by one unit of weight)
check_if_room_for_extra_item_OffByOne(self, new_item, current_solution) ==
    ~(self.capacity - (current_solution.weight + new_item.weight) < -1)

\* ---- _check_if_room_for_extra_item
check_if_room_for_extra_item(self, new_item, current_solution) ==
    ~(self.capacity - (current_solution.weight + new_item.weight) < 0)

\* The mutable part of the search: the queue and the best solution so far,
\* with the nodes that the current loop iteration has built.
Search(q, best, best_set) ==
    [queue |-> q, optimal_value |-> best, optimal_solution |-> best_set,
     created |-> <<>>]

ToSet(s) == {s[i] : i \in 1..Len(s)}

\* (variant: a node that equals the best value replaces the best solution)
check_if_solution_is_best_OrEqual(st, sol) ==
    IF sol.value >= st.optimal_value
    THEN [st EXCEPT !.optimal_value = sol.value,
                    !.optimal_solution = ToSet(sol.products)]
    ELSE st

\* ---- _check_if_solution_is_best
check_if_solution_is_best(st, sol) ==
    IF sol.value > st.optimal_value
    THEN [st EXCEPT !.optimal_value = sol.value,
                    !.optimal_solution = ToSet(sol.products)]
    ELSE st

\* (variant: an estimate equal to the best value counts as promising)
ExceedsOptimal_OrEqual(sol, best) == sol.optimistic_estimate.int >= best

\* optimistic_estimate > self.optimal_value
ExceedsOptimal(sol, best) ==
    \/ sol.optimistic_estimate.int > best
    \/ sol.optimistic_estimate.int = best /\ sol.optimistic_estimate.frac # <<>>

\* (variant: a promising node enters the queue twice)
QueueIfPromising_Twice(st, sol) ==
    IF ExceedsOptimal(sol, st.optimal_value)
    THEN [st EXCEPT !.queue = Append(Append(st.queue, sol), sol)]
    ELSE st

\* the tail of both explore methods: update the best, then queue the node
\* only if its estimate exceeds the best value
QueueIfPromising(st, sol) ==
    IF ExceedsOptimal(sol, st.optimal_value)
    THEN [st EXCEPT !.queue = Append(st.queue, sol)]
    ELSE st

CheckAndQueue(st, sol) ==
    QueueIfPromising(
        check_if_solution_is_best(
            [st EXCEPT !.created = Append(st.created, sol)], sol),
        sol)

\* (variant: the child with the item has the value of the item alone)
AddItem_ItemValueOnly(self, st, current_solution, level, new_item) ==
    IF check_if_room_for_extra_item(self, new_item, current_solution)
    THEN CheckAndQueue(st,
             set_solution(self, level,
                          new_item.value,
                          current_solution.weight + new_item.weight,
                          Append(current_solution.products, level)))
    ELSE st

\* ---- _explore_left
AddItem(self, st, current_solution, level, new_item) ==
    IF check_if_room_for_extra_item(self, new_item, current_solution)
    THEN CheckAndQueue(st,
             set_solution(self, level,
                          current_solution.value + new_item.value,
                          current_solution.weight + new_item.weight,
                          Append(current_solution.products, level)))
    ELSE st

explore_left(self, st, current_solution, level) ==
    AddItem(self, st, current_solution, level, self.sorted_items[level])

\* (variant: the child without the item stays on the level of its parent)
explore_right_SameLevel(self, st, current_solution, level) ==
    CheckAndQueue(st,
        set_solution(self, level - 1, current_solution.value,
                     current_solution.weight, current_solution.products))

\* ---- _explore_right
explore_right(self, st, current_solution, level) ==
    CheckAndQueue(st,
        set_solution(self, level, current_solution.value,
                     current_solution.weight, current_solution.products))

\* ---- _explore_tree
explore_tree(self, st, sol) ==
    IF sol.level < self.n /\ ExceedsOptimal(sol, st.optimal_value)
    THEN explore_right(self,
             explore_left(self, st, sol, sol.level + 1), sol, sol.level + 1)
    ELSE st

\* ---- the removal in execute: self.queue.pop() takes the last element of
\* the list in every class of knapsack_solvers.py (_sort_solution_queue is
\* never called); self.q.get() takes the first of the queue.Queue
\* (variant: every class reads the first element)
PopIndex_First(self, q) == 1

PopIndex(self, q) == IF self.cls = "Fifo" THEN 1 ELSE Len(q)

Removed(self, q) == q[PopIndex(self, q)]

Remaining(self, q) ==
    IF self.cls = "Fifo" THEN Tail(q) ELSE SubSeq(q, 1, Len(q) - 1)

\* one iteration of the while loop of execute
LoopStep(self, st) ==
    explore_tree(self,
                 [st EXCEPT !.queue = Remaining(self, st.queue),
                            !.created = <<>>],
                 Removed(self, st.queue))

\* the whole while loop
RECURSIVE RunLoop(_, _)
RunLoop(self, st) ==
    IF st.queue = <<>> THEN st ELSE RunLoop(self, LoopStep(self, st))

\* the first three statements of execute
RootSolution(self) ==
    Solution(0, 0, 0,
             calculate_optimistic_estimate(self,
                 Solution(0, 0, 0, IntToDouble(0), <<>>)),
             <<>>)

\* (variant: the entry of a selected item is counted up, not set to 1)
MarkSelected_Counting(self, selected, best_set) ==
    [i \in 1..Len(selected) |->
        IF \E level \in best_set : self.sorted_items[level].index = i - 1
        THEN selected[i] + 1 ELSE selected[i]]

\* (variant: a level is taken for an original index)
MarkSelected_ByLevel(self, selected, best_set) ==
    [i \in 1..Len(selected) |-> IF i \in best_set THEN 1 ELSE selected[i]]

\* ---- _get_final_solution
MarkSelected(self, selected, best_set) ==
    [i \in 1..Len(selected) |->
        IF \E level \in best_set : self.sorted_items[level].index = i - 1
        THEN 1 ELSE selected[i]]

\* sum(vi * xi for (vi, xi) in zip(self.values, self.items_selected))
TotalValue(vals, taken) ==
    SumSeq([k \in 1..Min(Len(vals), Len(taken)) |-> vals[k] * taken[k]])

FinalSolution(self, taken) ==
    [value |-> TotalValue(self.values, taken), taken |-> taken]

get_final_solution(self, selected, best_set) ==
    FinalSolution(self, MarkSelected(self, selected, best_set) \o <<>>)

\* ---- execute on a newly constructed object, from the first statement to
\* the return
ReturnFrom(self, st) ==
    get_final_solution(self, [i \in 1..self.n |-> 0], st.optimal_solution)

execute(self) ==
    ReturnFrom(self, RunLoop(self, Search(<<RootSolution(self)>>, 0, {})))

\* ------------------------------------------------------------ the actions
Self == SolverObject(cls, capacity, sorted_items, cumsum_value)

\* the inputs of at most count lines <<value, weight>> of the given kinds
Instances(count, kinds) == UNION {[1..k -> kinds] : k \in 0..count}

\* _parse_input: line i of the items becomes Item(i - 1, value, weight)
ParseItems(lines) ==
    [i \in 1..Len(lines) |-> Item(i - 1, lines[i][1], lines[i][2])]

\* the state before the constructor runs, of every field but the inputs
InitFields ==
    /\ cls \in Classes
    /\ pc = "new"
    /\ sorted_items = <<>>
    /\ n = 0
    /\ values = <<>>
    /\ weights = <<>>
    /\ cumsum_value = <<>>
    /\ items_selected = <<>>
    /\ optimal_value = 0
    /\ optimal_solution = {}
    /\ queue = <<>>
    /\ solution = NoSolution
    /\ created = <<>>
    /\ result = NoResult
    /\ previous = NoResult
    /\ calls = 0
    /\ error = ""

InitWith(count, kinds, capacities) ==
    /\ \E lines \in Instances(count, kinds) : items = ParseItems(lines)
    /\ capacity \in capacities
    /\ InitFields

\* the two worked instances of the specification, with the capacities its
\* scenarios name
ScenarioLines ==
    {<< <<8, 4>>, <<10, 5>>, <<15, 8>>, <<4, 3>> >>, << <<5, 10>> >>}
ScenarioCapacities == {0, 5, 11}

InitScenario ==
    /\ \E lines \in ScenarioLines : items = ParseItems(lines)
    /\ capacity \in ScenarioCapacities
    /\ InitFields

\* valid instances: all the small ones, and the worked ones
Init ==
    \/ InitWith(MaxItems, (0..MaxValue) \X (1..MaxWeight), 0..MaxCapacity)
    \/ InitScenario

\* instances that may hold weights that are zero or negative
InitAny ==
    InitWith(MaxItemsAny, (0..MaxValue) \X ((0 - MaxNegativeWeight)..MaxWeight),
             0..MaxCapacity)

\* valid instances on which the fractional share of the bound is a double
\* that had to be rounded: items of equal ratio 30/22 = 15/11
RoundingKinds == {<<30, 22>>, <<15, 11>>}
RoundingCapacities == {11, 22, 33}
InitRounding == InitWith(MaxItems, RoundingKinds, RoundingCapacities)

\* BranchAndBoundSolver.__init__ (and BranchBoundCapacityConstraint.__init__):
\* the division of the sort key raises ZeroDivisionError on a zero weight
Construct ==
    /\ pc = "new"
    /\ IF \E i \in 1..Len(items) : items[i].weight = 0
       THEN /\ pc' = "error"
            /\ error' = "ZeroDivisionError"
            /\ items_selected' = [i \in 1..Len(items) |-> 0]
            /\ UNCHANGED <<sorted_items, n, values, weights, cumsum_value>>
       ELSE \E obj \in {SolverObject(cls, capacity, sort_items(items), <<>>)} :
               /\ pc' = "constructed"
               /\ sorted_items' = obj.sorted_items
               /\ n' = obj.n
               /\ values' = obj.values
               /\ weights' = obj.weights
               /\ cumsum_value' = IF cls \in CapacityClasses
                                  THEN CumSum(obj.values) ELSE <<>>
               /\ items_selected' = [i \in 1..Len(items) |-> 0]
               /\ UNCHANGED error
    /\ optimal_value' = 0
    /\ optimal_solution' = {}
    /\ queue' = <<>>
    /\ UNCHANGED <<cls, items, capacity, solution, created, result, previous,
                   calls>>

\* execute, up to the while loop: the root node enters the queue.  The call
\* is the first one on the object, or a further one after a return: the
\* fields of the object are as the call before left them.
ExecuteStart ==
    /\ pc = "constructed" \/ (pc = "done" /\ calls < MaxCalls)
    /\ \E root \in {RootSolution(Self)} :
          /\ queue' = Append(queue, root)
          /\ created' = <<root>>
    /\ pc' = "loop"
    /\ solution' = NoSolution
    /\ calls' = calls + 1
    /\ previous' = result
    /\ UNCHANGED <<cls, items, capacity, sorted_items, n, values, weights,
                   cumsum_value, items_selected, optimal_value,
                   optimal_solution, result, error>>

\* execute, one iteration of the while loop
ExecuteStep ==
    /\ pc = "loop"
    /\ queue # <<>>
    /\ \E st \in {LoopStep(Self, Search(queue, optimal_value, optimal_solution))} :
          /\ solution' = Removed(Self, queue)
          /\ queue' = st.queue
          /\ optimal_value' = st.optimal_value
          /\ optimal_solution' = st.optimal_solution
          /\ created' = st.created
    /\ UNCHANGED <<cls, items, capacity, pc, sorted_items, n, values, weights,
                   cumsum_value, items_selected, result, previous, calls, error>>

\* execute, after the while loop: return self._get_final_solution()
ExecuteReturn ==
    /\ pc = "loop"
    /\ queue = <<>>
    /\ \E r \in {get_final_solution(Self, items_selected, optimal_solution)} :
          /\ items_selected' = r.taken
          /\ result' = r
    /\ pc' = "done"
    /\ UNCHANGED <<cls, items, capacity, sorted_items, n, values, weights,
                   cumsum_value, optimal_value, optimal_solution, queue,
                   solution, created, previous, calls, error>>

Next == Construct \/ ExecuteStart \/ ExecuteStep \/ ExecuteReturn

Spec == Init /\ [][Next]_vars

SpecAny == InitAny /\ [][Next]_vars

SpecRounding == InitRounding /\ [][Next]_vars

\* ------------------------------------------------------------- properties
FourClasses == CapacityClasses \cup {"IntBF", "IntDF"}

ValidInstance ==
    /\ capacity >= 0
    /\ \A i \in 1..Len(items) : items[i].value >= 0 /\ items[i].weight > 0

\* sum of f[i] over the positions i in S
SumOver(f, S) == SumSeq([i \in 1..Len(f) |-> IF i \in S THEN f[i] ELSE 0])

ItemValues(its) == [i \in 1..Len(its) |-> its[i].value]
ItemWeights(its) == [i \in 1..Len(its) |-> its[i].weight]

Greatest(S) == CHOOSE x \in S : \A y \in S : y <= x

\* the best total value of a set of positions in S whose weight is <= room
BestSubsetValue(vals, wts, S, room) ==
    Greatest({SumOver(vals, T) : T \in {U \in SUBSET S : SumOver(wts, U) <= room}})

\* the optimum of the knapsack instance, by enumeration of all subsets
KnapsackOptimum(its, cap) ==
    BestSubsetValue(ItemValues(its) \o <<>>, ItemWeights(its) \o <<>>,
                    1..Len(its), cap)

\* the while loop of execute has ended
LoopEnded == pc \in {"loop", "done"} /\ queue = <<>>

\* C1: on a valid instance, when the loop of a solver with the integrality
\* bound ends with an empty queue, optimal_value is the maximum total value
\* of the subsets of items whose total weight is at most the capacity.
C1_IncumbentIsOptimum ==
    (ValidInstance /\ cls \in IntegralityClasses /\ LoopEnded)
        => optimal_value = KnapsackOptimum(items, capacity)

\* an integrality run that ended on three or more items, some taken and some
\* left out
C1_Witness ==
    /\ ValidInstance /\ cls \in IntegralityClasses /\ LoopEnded
    /\ n >= 3
    /\ optimal_value >= 3
    /\ Cardinality(optimal_solution) \in 1..(n - 1)

\* the total value of the original items that taken marks with 1
SelectedValue(its, taken) == SumSeq([i \in 1..Len(its) |-> its[i].value * taken[i]])
SelectedWeight(its, taken) == SumSeq([i \in 1..Len(its) |-> its[i].weight * taken[i]])

\* C2: on a valid instance the value returned by execute is the sum of
\* value_i * inclusion_i over the items in input order with the returned
\* vector, and that sum is the best value at the end of the search.
C2_ReturnedValueIsSelectedValue ==
    (ValidInstance /\ pc = "done")
        => /\ result.value = SelectedValue(items, result.taken)
           /\ result.value = optimal_value

\* the solver object of class c on the same instance
Other(c) == SolverObject(c, capacity, sorted_items, CumSum(values))

\* C3: on a valid instance the four combinations of bound and traversal
\* return the same optimal value.
C3_FourCombinationsAgree ==
    (ValidInstance /\ pc = "done" /\ cls \in FourClasses)
        => \A c \in FourClasses : execute(Other(c)).value = result.value

\* C4: on a valid instance, for every combination, the returned vector has a
\* 0/1 entry per original item, a 1 exactly at the original items of the
\* levels of optimal_solution, and a total weight of at most the capacity.
C4_ReturnedVectorIsFeasible ==
    (ValidInstance /\ pc = "done")
        => /\ Len(result.taken) = Len(items)
           /\ \A i \in 1..Len(items) :
                 /\ result.taken[i] \in {0, 1}
                 /\ result.taken[i] = 1 <=>
                       \E level \in optimal_solution :
                          sorted_items[level] = items[i]
           /\ SelectedWeight(items, result.taken) <= capacity

\* a returned vector over three or more items whose order the sort changed,
\* with an item taken and an item left out
C4_Witness ==
    /\ ValidInstance /\ pc = "done"
    /\ Len(items) >= 3
    /\ sorted_items # items
    /\ \E i, j \in 1..Len(items) : result.taken[i] = 1 /\ result.taken[j] = 0
\* the best total value of an integral completion of the node sol: its own
\* value and the best set of later levels that fits in the room left
BestCompletion(self, sol) ==
    sol.value + BestSubsetValue(self.values, self.weights,
                                (sol.level + 1)..self.n,
                                self.capacity - sol.weight)

\* every node built since the last removal has an estimate >= its best
\* completion
CreatedAreAdmissible ==
    \A k \in 1..Len(created) :
        created[k].optimistic_estimate.int >= BestCompletion(Self, created[k])

\* C5: on a valid instance the integrality bound of every node built during
\* the search, the root included, is at least the best total value of an
\* integral completion of the node.
C5_IntegralityBoundAdmissible ==
    (ValidInstance /\ cls \in IntegralityClasses) => CreatedAreAdmissible

\* C6: on a valid instance the capacity bound
\* accumulated_weight + prefix[n] - prefix[depth] of every node built during
\* the search, the root included, is at least the best total value of an
\* integral completion of the node.
C6_CapacityBoundAdmissible ==
    (ValidInstance /\ cls \in CapacityClasses) => CreatedAreAdmissible

\* C7: in the best-first solvers every node removed from the queue has an
\* estimate >= the estimate of every node pending at the removal.
C7_BestFirstRemovesHighestBound ==
    [][(ValidInstance /\ cls \in BestFirstClasses /\ pc = "loop" /\ queue # <<>>)
          => \A k \in 1..Len(queue) :
                DoubleLeq(queue[k].optimistic_estimate,
                          solution'.optimistic_estimate)]_vars

\* C8: in the depth-first solvers the queue is a stack: the node removed is
\* the one inserted last among the pending ones, and its level is >= the
\* level of every pending node.
C8_DepthFirstIsStack ==
    [][(ValidInstance /\ cls \in DepthFirstClasses /\ pc = "loop" /\ queue # <<>>)
          => /\ solution' = queue[Len(queue)]
             /\ \A k \in 1..Len(queue) : queue[k].level <= solution'.level]_vars

\* a depth-first search that has removed a node below the root and holds
\* pending nodes of different levels
C8_Witness ==
    /\ ValidInstance /\ cls \in DepthFirstClasses /\ pc = "loop"
    /\ solution.level >= 1
    /\ Len(queue) >= 2
    /\ queue[1].level < queue[Len(queue)].level

\* the size of the full binary tree below and including a node of a level
SubtreeSize(level) == 2 ^ (n - level + 1) - 1

\* the number of nodes the pending nodes can still give rise to
PendingWork == SumSeq([k \in 1..Len(queue) |-> SubtreeSize(queue[k].level)])

\* C9: on a valid instance, for every combination, the loop terminates: a
\* child has the level of its parent plus one, no node of level n is
\* branched, and every removal lowers the number of nodes that can still be
\* built, so that the queue is empty after finitely many removals.
C9_SearchTerminates ==
    [][(ValidInstance /\ pc = "loop" /\ queue # <<>>)
          => /\ \A k \in 1..Len(created') :
                    created'[k].level = solution'.level + 1
             /\ solution'.level = n => created' = <<>>
             /\ PendingWork' < PendingWork
             /\ PendingWork' >= 0]_vars

\* a search that ended after removing a node of the last level
C9_Witness ==
    /\ ValidInstance /\ LoopEnded
    /\ n >= 2
    /\ solution.level = n

HasNonPositiveWeight == \E i \in 1..Len(items) : items[i].weight <= 0

\* C10: if an item has a zero or negative weight, solving fails before any
\* search step: no node is built, the best solution is not changed and no
\* result is returned.
C10_NonPositiveWeightRejected ==
    HasNonPositiveWeight =>
        /\ pc \in {"new", "error"}
        /\ created = <<>>
        /\ queue = <<>>
        /\ optimal_value = 0 /\ optimal_solution = {}
        /\ result = NoResult

\* C11: on a valid instance every solver returns, for capacity 0, the value 0
\* with a vector of one 0 per item, and for no items the value 0 with the
\* empty vector.
C11_DegenerateInstances ==
    (ValidInstance /\ pc = "done")
        => /\ capacity = 0 =>
                 /\ result.value = 0
                 /\ Len(result.taken) = Len(items)
                 /\ \A i \in 1..Len(items) : result.taken[i] = 0
           /\ items = <<>> => result = [value |-> 0, taken |-> <<>>]

\* a return for capacity 0 on two or more items, some of them of value
C11_Witness ==
    /\ ValidInstance /\ pc = "done"
    /\ capacity = 0
    /\ Len(items) >= 2
    /\ \E i \in 1..Len(items) : items[i].value > 0
    /\ result.value = 0

\* the first worked instance of the specification
WorkedItems == ParseItems(<< <<8, 4>>, <<10, 5>>, <<15, 8>>, <<4, 3>> >>)
WorkedInstance == items = WorkedItems /\ capacity = 11

\* C12: on the items (8,4), (10,5), (15,8), (4,3) with capacity 11 each of
\* the four combinations returns the optimal value 19, with the selection
\* the specification names (original items 0 and 1, which are worth 18) or
\* the only selection worth 19 within the capacity (original items 2 and 3).
C12_FourReturn19 ==
    (WorkedInstance /\ pc = "done" /\ cls \in FourClasses)
        => /\ result.value = 19
           /\ result.taken \in {<<1, 1, 0, 0>>, <<0, 0, 1, 1>>}

\* C13: on a valid instance the first call of execute on an object returns
\* what execute returns on any other new object of the same inputs, and a
\* further call on the same object, which starts from the best solution and
\* the items_selected the call before left, returns the same value again.
C13_RepeatedSolveSameValue ==
    (ValidInstance /\ pc = "done")
        => /\ calls = 1 => result = execute(Self)
           /\ calls >= 2 =>
                 /\ result.value = previous.value
                 /\ previous.value = execute(Self).value

\* a second return on the same object, of a value above 0, after a search
\* that removed more than the root
C13_Witness ==
    /\ ValidInstance /\ pc = "done"
    /\ calls = 2
    /\ result.value >= 2
    /\ solution.level >= 1

\* the best value after the update for the k-th of the nodes built
BestAfterNode(best, built, k) ==
    Greatest({best} \cup {built[j].value : j \in 1..k})

\* the estimate of the node is strictly above the value
StrictlyAbove(sol, value) == DoubleLess(IntToDouble(value), sol.optimistic_estimate)

\* the nodes built, from the k-th on, whose estimate is strictly above the
\* best value after their own update
RECURSIVE StrictlyPromising(_, _, _)
StrictlyPromising(best, built, k) ==
    IF k > Len(built) THEN <<>>
    ELSE (IF StrictlyAbove(built[k], BestAfterNode(best, built, k))
          THEN <<built[k]>> ELSE <<>>)
         \o StrictlyPromising(best, built, k + 1)

\* C14: pruning is strict at both points: a removed node is branched only if
\* its estimate is strictly above the best value at its removal, and builds
\* no child otherwise; a child enters the queue only if its estimate is
\* strictly above the best value after the update for that child.
C14_PruningIsStrict ==
    [][(ValidInstance /\ pc = "loop" /\ queue # <<>>)
          => /\ ~StrictlyAbove(solution', optimal_value) => created' = <<>>
             /\ (StrictlyAbove(solution', optimal_value) /\ solution'.level < n)
                    => created' # <<>>
             /\ queue' = Remaining(Self, queue)
                            \o StrictlyPromising(optimal_value, created', 1)]_vars

\* a removed node above the last level whose estimate equals the best value
\* and that built no child, with a node still pending
C14_Witness ==
    /\ ValidInstance /\ pc = "loop"
    /\ solution # NoSolution
    /\ solution.level < n
    /\ solution.optimistic_estimate = IntToDouble(optimal_value)
    /\ created = <<>>
    /\ queue # <<>>

\* C15: the best solution is (0, {}) before the search, its value never
\* decreases, and it changes only in a step that builds a child of a value
\* strictly above the best value, to that value and the set of the levels the
\* child includes.
C15_IncumbentMonotone ==
    /\ [](pc \in {"new", "constructed"}
            => optimal_value = 0 /\ optimal_solution = {})
    /\ [][/\ optimal_value' >= optimal_value
          /\ <<optimal_value, optimal_solution>>' # <<optimal_value, optimal_solution>>
                => \E k \in 1..Len(created') :
                      /\ created'[k].value > optimal_value
                      /\ optimal_value' = created'[k].value
                      /\ optimal_solution' = ToSet(created'[k].products)]_vars

\* a step has replaced a best solution above 0 by a child that includes two
\* or more levels
C15_Witness ==
    /\ ValidInstance /\ pc = "loop"
    /\ \E k \in 1..Len(created) :
          /\ created[k].value = optimal_value
          /\ ToSet(created[k].products) = optimal_solution
          /\ Len(created[k].products) >= 2
          /\ created[k].value > solution.value
          /\ solution.value > 0

\* the nodes the state holds: built in the last step, pending, or removed
NodesAtHand == ToSet(created) \cup ToSet(queue) \cup {solution}

\* the second worked instance of the specification
HeavyInstance == items = ParseItems(<< <<5, 10>> >>) /\ capacity = 5

\* C16: on a valid instance every node built has a weight <= capacity; a
\* level whose item alone is heavier than the capacity is in the set of no
\* node and not in the best solution, and its item has a 0 in the returned
\* vector; on the single item (5,10) with capacity 5 the return is the value
\* 0 with nothing selected.
C16_NodesWithinCapacity ==
    ValidInstance
        => /\ \A sol \in NodesAtHand : sol.weight <= capacity
           /\ \A level \in 1..n :
                 weights[level] > capacity
                    => /\ \A sol \in NodesAtHand : level \notin ToSet(sol.products)
                       /\ level \notin optimal_solution
           /\ pc = "done" =>
                 \A i \in 1..Len(items) :
                    items[i].weight > capacity => result.taken[i] = 0
           /\ (pc = "done" /\ HeavyInstance)
                 => result = [value |-> 0, taken |-> <<0>>]

\* the return on the single item (5,10) with capacity 5
C16_Witness ==
    /\ pc = "done"
    /\ HeavyInstance
    /\ result.value = 0
    /\ optimal_solution = {}

\* the best value at the end of the whole loop of a new solver of class c on
\* the same instance
FinalBest(c) ==
    RunLoop(Other(c), Search(<<RootSolution(Other(c))>>, 0, {})).optimal_value

\* the queue of a new solver of class c after k steps of its loop, or sooner
\* if a further step would empty it
RECURSIVE StepsOf(_, _, _)
StepsOf(self, st, k) ==
    IF k = 0 \/ LoopStep(self, st).queue = <<>> THEN st
    ELSE StepsOf(self, LoopStep(self, st), k - 1)

\* the node that the loop of a new solver of class c removes last
RunLoopLast(c) ==
    Removed(Other(c),
            StepsOf(Other(c), Search(<<RootSolution(Other(c))>>, 0, {}),
                    2 ^ (n + 1)).queue)

\* C17: on a valid instance the solver of src/branch_and_bound.py, which
\* removes first in first out, and the solvers of
\* src/algorithms/branch_and_bound.py with the integrality bound, which
\* remove last in first out, end their loops with the same best value.
C17_FifoAndLifoAgree ==
    (ValidInstance /\ cls = "Fifo" /\ LoopEnded)
        => \A c \in IntegralityClasses \cap FourClasses :
              FinalBest(c) = optimal_value

\* the first-in-first-out loop has ended on three items after it removed
\* nodes in another order than last-in-first-out does
C17_Witness ==
    /\ ValidInstance /\ cls = "Fifo" /\ LoopEnded
    /\ n >= 3
    /\ optimal_value >= 3
    /\ solution # NoSolution
    /\ solution # RunLoopLast("IntDF")

\* the search has removed no node but the root, and has built and holds no
\* other node
RootOnly ==
    /\ solution.level <= 0
    /\ \A sol \in ToSet(created) \cup ToSet(queue) : sol.level = 0

\* C18, as the specification states it: with capacity 0, under either bound,
\* the loop ends after the root: the root is the only node removed and no
\* child is built or queued.
C18_CapacityZeroRootOnly ==
    (ValidInstance /\ capacity = 0 /\ pc \in {"loop", "done"}) => RootOnly

\* C18, as the code behaves: with capacity 0, under the integrality bound, the
\* loop ends after the root: the root is the only node removed and no child
\* is built or queued.  (Under the capacity bound the estimate of the root is
\* the total value of the items, and the root is branched when that is above
\* 0.)
C18_IntegralityCapacityZeroRootOnly ==
    (ValidInstance /\ capacity = 0 /\ pc \in {"loop", "done"}
                   /\ cls \in IntegralityClasses)
        => /\ RootOnly
           /\ LoopEnded => solution = RootSolution(Self)

\* an integrality search for capacity 0 on items of value has ended
C18_Witness ==
    /\ ValidInstance /\ capacity = 0 /\ cls \in IntegralityClasses
    /\ LoopEnded
    /\ n >= 2
    /\ values[1] > 0
    /\ solution.level = 0

\* C19: in the depth-first solvers, on a valid instance of n >= 1 items, the
\* queue never holds more than 2 * n nodes.
C19_DepthFirstQueueBound ==
    (ValidInstance /\ cls \in DepthFirstClasses /\ n >= 1)
        => Len(queue) <= 2 * n

\* a depth-first search on three items with a node of every level pending
C19_Witness ==
    /\ ValidInstance /\ cls \in DepthFirstClasses /\ pc = "loop"
    /\ n = 3
    /\ Len(queue) >= 3

\* C20: after construction on a valid instance, sorted_items is a
\* permutation of the input items in non-increasing order of value / weight,
\* items of equal ratio are in their input order, and values and weights
\* hold at position k the value and the weight of the k-th sorted item.
C20_SortedByRatio ==
    (ValidInstance /\ pc \notin {"new", "error"})
        => /\ Len(sorted_items) = Len(items)
           /\ n = Len(items)
           /\ \A i \in 1..Len(items) :
                 Cardinality({k \in 1..n : sorted_items[k] = items[i]}) = 1
           /\ \A k, l \in 1..n :
                 k < l =>
                    /\ sorted_items[k].value * sorted_items[l].weight
                          >= sorted_items[l].value * sorted_items[k].weight
                    /\ sorted_items[k].value * sorted_items[l].weight
                          = sorted_items[l].value * sorted_items[k].weight
                       => sorted_items[k].index < sorted_items[l].index
           /\ Len(values) = n /\ Len(weights) = n
           /\ \A k \in 1..n :
                 /\ values[k] = sorted_items[k].value
                 /\ weights[k] = sorted_items[k].weight

\* a constructed solver whose sort moved items and kept two different items
\* of equal ratio in their input order
C20_Witness ==
    /\ ValidInstance /\ pc = "constructed"
    /\ sorted_items # items
    /\ \E k, l \in 1..n :
          /\ k < l
          /\ sorted_items[k].value # sorted_items[l].value
          /\ sorted_items[k].value > 0
          /\ sorted_items[k].value * sorted_items[l].weight
                = sorted_items[l].value * sorted_items[k].weight

\* the node is what its included levels say: they are distinct levels of
\* 1..level, level is at most n, and value and weight are the sums of the
\* sorted values and weights over them
GenuineNode(sol) ==
    /\ Cardinality(ToSet(sol.products)) = Len(sol.products)
    /\ \A k \in 1..Len(sol.products) : sol.products[k] \in 1..sol.level
    /\ sol.level <= n
    /\ sol.value = SumOver(values, ToSet(sol.products))
    /\ sol.weight = SumOver(weights, ToSet(sol.products))

\* C21: in every state of the search on a valid instance the best solution
\* is a feasible one: optimal_solution is a set of levels of 1..n whose
\* sorted weights sum to at most the capacity and whose sorted values sum to
\* optimal_value; and every pending node (and every node just built) has the
\* value and the weight of its included levels, which are distinct and at
\* most its level, which is at most n.
C21_IncumbentAndNodesGenuine ==
    ValidInstance
        => /\ optimal_solution \subseteq 1..n
           /\ SumOver(weights, optimal_solution) <= capacity
           /\ SumOver(values, optimal_solution) = optimal_value
           /\ \A k \in 1..Len(queue) : GenuineNode(queue[k])
           /\ \A k \in 1..Len(created) : GenuineNode(created[k])

\* a search on items the sort moved, with a best solution of two or more
\* levels and a pending node that includes two or more levels
C21_Witness ==
    /\ ValidInstance /\ pc = "loop"
    /\ sorted_items # items
    /\ Cardinality(optimal_solution) >= 2
    /\ optimal_value >= 2
    /\ \E k \in 1..Len(queue) :
          /\ Len(queue[k].products) >= 2
          /\ queue[k].weight >= 2

====
